---- MODULE Spec2Model ----
\* Model of TTS/tts/utils/speakers.py: the SpeakerManager registry (speaker id
\* mapping, x-vector table, derived indices), its JSON persistence, its
\* aggregation queries and the clip-to-x-vector computation.
\*
\* Python values are modelled as follows.
\*   str    a sequence of character codes, ordered lexicographically (StrLess)
\*   dict   [type |-> "dict", items |-> sequence of [key, value]] with unique keys,
\*          in insertion order (Python dicts iterate in insertion order)
\*   list   [type |-> "list", items |-> sequence]
\*   float  an exact fraction <<numerator, denominator>> in lowest terms
\* A JSON document is [type |-> "object", members |-> ...], [type |-> "array",
\* elements |-> ...] or Unreadable (missing path or text that does not parse).
EXTENDS Integers, Sequences, FiniteSets, TLC

VARIABLES x_vectors, speaker_ids, clip_ids, speaker_encoder, disk, ret

vars == <<x_vectors, speaker_ids, clip_ids, speaker_encoder, disk, ret>>

\* ------------------------------------------------------------------ bounds
\* longest corpus item list handed to parse_speakers_from_items
MaxItems == 3
\* most entries in one x-vector document
MaxEntries == 2
\* largest num_samples handed to get_mean_x_vector
MaxSamples == 3
\* longest clip list handed to compute_x_vector_from_clip
MaxWavs == 2

\* ------------------------------------------------------------ input pools
\* "a", "ab", "b": speaker names; "ab" sorts between "a" and "b"
SpeakerNames == {<<97>>, <<97, 98>>, <<98>>}
\* a name no table entry carries ("zz")
UnknownSpeaker == <<122, 122>>
\* "c1", "c2", ...: the clip ids of the corpus, one per possible entry
ClipName(i) == <<99, 48 + i>>
ClipNames == {ClipName(i) : i \in 1..MaxEntries}
\* the embedding the corpus holds for each clip
ClipEmbeddings == << <<1, 0>>, <<3, 0>>, <<0, 2>>, <<5, 4>> >>
EmbeddingOf(clip) == ClipEmbeddings[clip[2] - 48]

\* ------------------------------------------------------------------ strings
Min(a, b) == IF a <= b THEN a ELSE b

\* Python's str comparison: first differing character decides, a proper prefix
\* is smaller
StrLess(s, t) ==
    \/ \E i \in 1..Min(Len(s), Len(t)) :
          /\ s[i] < t[i]
          /\ \A j \in 1..(i - 1) : s[j] = t[j]
    \/ /\ Len(s) < Len(t)
       /\ \A j \in 1..Len(s) : s[j] = t[j]

\* sorted(iterable of distinct str): ascending
RECURSIVE sorted(_)
sorted(S) ==
    IF S = {} THEN <<>>
    ELSE LET m == CHOOSE x \in S : \A y \in S \ {x} : StrLess(x, y)
         IN  <<m>> \o sorted(S \ {m})

Range(f) == {f[i] : i \in DOMAIN f}

\* every ordering of the elements of a set: the outcomes of list(set(...)),
\* whose order is the hash order of the strings
Orderings(S) ==
    {f \in [1..Cardinality(S) -> S] : Range(f) = S}

\* -------------------------------------------------------------- dict, list
PyDict(items) == [type |-> "dict", items |-> items]
PyList(items) == [type |-> "list", items |-> items]

DictKeys(d) == [i \in 1..Len(d.items) |-> d.items[i].key]
DictValues(d) == [i \in 1..Len(d.items) |-> d.items[i].value]
DictHas(d, k) == \E i \in 1..Len(d.items) : d.items[i].key = k
DictGet(d, k) == d.items[CHOOSE i \in 1..Len(d.items) : d.items[i].key = k].value

\* d[k] = v: an existing key keeps its position
DictSet(d, k, v) ==
    IF DictHas(d, k)
    THEN PyDict([i \in 1..Len(d.items) |->
                    IF d.items[i].key = k THEN [key |-> k, value |-> v] ELSE d.items[i]])
    ELSE PyDict(Append(d.items, [key |-> k, value |-> v]))

\* len() of a dict or a list
PyLen(v) == Len(v.items)

\* one x-vector entry {"name": ..., "embedding": [...]}; keys is the set of the
\* keys the entry has (a record without "name" is not a valid entry)
Entry(name, embedding) ==
    [keys |-> {"name", "embedding"}, name |-> name, embedding |-> embedding]
NamelessEntry(embedding) ==
    [keys |-> {"embedding"}, name |-> <<>>, embedding |-> embedding]

\* --------------------------------------------------------------------- JSON
Unreadable == [type |-> "unreadable"]

\* (mutant) json.dump(..., sort_keys=True): members in key order
json_dump_sort_keys(data) ==
    IF data.type = "dict"
    THEN LET ks == sorted(Range(DictKeys(data)))
         IN  [type |-> "object",
              members |-> [i \in 1..Len(ks) |-> [key |-> ks[i], value |-> DictGet(data, ks[i])]]]
    ELSE [type |-> "array", elements |-> data.items]

\* json.dump: a dict becomes an object whose members follow the dict's order,
\* a list becomes an array
json_dump(data) ==
    IF data.type = "dict"
    THEN [type |-> "object", members |-> data.items]
    ELSE [type |-> "array", elements |-> data.items]

\* json.load of an object: members are inserted one by one, a repeated key
\* overwrites the earlier value
RECURSIVE ObjectToDict(_, _)
ObjectToDict(members, acc) ==
    IF members = <<>> THEN acc
    ELSE ObjectToDict(Tail(members), DictSet(acc, Head(members).key, Head(members).value))

json_load(doc) ==
    IF doc.type = "object"
    THEN ObjectToDict(doc.members, PyDict(<<>>))
    ELSE PyList(doc.elements)

\* _load_json: open() or json.load() raises on a missing path or malformed text
load_json(doc) ==
    IF doc.type = "unreadable"
    THEN [raised |-> TRUE, value |-> PyList(<<>>)]
    ELSE [raised |-> FALSE, value |-> json_load(doc)]

\* _save_json: the file at the path now holds the dumped document
save_json(data) == json_dump(data)

\* ------------------------------------------------------- documents on hand
\* sequences of at most n distinct elements of S
DistinctSeqs(S, n) ==
    UNION {{f \in [1..k -> S] : \A i, j \in 1..k : i # j => f[i] # f[j]} : k \in 0..n}

\* the speakers of the corpus the x-vector documents come from: "a", "b"
TableSpeakers == {<<97>>, <<98>>}

\* the entries an x-vector document can hold for a clip: a valid
\* {name, embedding} record, or a record without a name
ValidEntryValues(clip) == {Entry(n, EmbeddingOf(clip)) : n \in TableSpeakers}
EntryValues(clip) == ValidEntryValues(clip) \cup {NamelessEntry(EmbeddingOf(clip))}

\* the JSON objects with the given key sequences and, per key, the given values
ObjectDocs(keyseqs, Values(_)) ==
    UNION {{[type |-> "object",
             members |-> [i \in 1..Len(ks) |-> [key |-> ks[i], value |-> vs[i]]]] :
               vs \in {f \in [1..Len(ks) -> UNION {Values(k) : k \in Range(ks)}] :
                         \A i \in 1..Len(ks) : f[i] \in Values(ks[i])}} :
           ks \in keyseqs}

\* x-vector documents, clip id -> entry: the well-formed ones of at most
\* MaxEntries entries, and ones over the first two clips in which some entry
\* has no name
ValidXVectorDocs == ObjectDocs(DistinctSeqs(ClipNames, MaxEntries), ValidEntryValues)
InvalidXVectorDocs ==
    {d \in ObjectDocs(DistinctSeqs({ClipName(1), ClipName(2)}, 2), EntryValues) :
        \E i \in 1..Len(d.members) : "name" \notin d.members[i].value.keys}
XVectorDocs == ValidXVectorDocs \cup InvalidXVectorDocs

\* the documents whose clips are listed in ascending or in descending order
KeysAscending(doc) ==
    \A i \in 1..(Len(doc.members) - 1) : StrLess(doc.members[i].key, doc.members[i + 1].key)
KeysDescending(doc) ==
    \A i \in 1..(Len(doc.members) - 1) : StrLess(doc.members[i + 1].key, doc.members[i].key)
OrderedXVectorDocs == {d \in XVectorDocs : KeysAscending(d) \/ KeysDescending(d)}

\* id-mapping documents: speaker name -> integer id, one id per name and no id
\* shared by two names
IdValues(name) == {0, 1}
IdsDocs ==
    {d \in ObjectDocs(DistinctSeqs(TableSpeakers, 2), IdValues) :
        \A i, j \in 1..Len(d.members) : i # j => d.members[i].value # d.members[j].value}

\* the path the registry saves to; any other path names a document on hand.
\* disk is the file at SavePath: holds tells which save wrote it last
SavePath == "saved.json"
OtherPath == "given.json"
NoFile == [holds |-> "nothing", doc |-> Unreadable]

\* -------------------------------------------------------------------- state
\* __init__ with no arguments
Init ==
    /\ x_vectors = PyDict(<<>>)
    /\ speaker_ids = PyList(<<>>)
    /\ clip_ids = PyList(<<>>)
    /\ speaker_encoder = "None"
    /\ disk = NoFile
    /\ ret = [op |-> "__init__", status |-> "ok"]

\* the num_speakers property
num_speakers == PyLen(speaker_ids)

\* (mutant) numbering that starts at 1
EnumerateFromOne(speakers) ==
    PyDict([i \in 1..Len(speakers) |-> [key |-> speakers[i], value |-> i]])

\* enumerate(speakers) into a dict: {name: i for i, name in enumerate(speakers)}
Enumerate(speakers) ==
    PyDict([i \in 1..Len(speakers) |-> [key |-> speakers[i], value |-> i - 1]])

\* corpus items: item[2] is the speaker name
Items ==
    UNION {[1..k -> {<<"text", "wav", n>> : n \in SpeakerNames}] : k \in 0..MaxItems}

parse_speakers_from_items(items) ==
    LET speakers == sorted({items[i][3] : i \in 1..Len(items)})
        ids == Enumerate(speakers)
    IN  /\ speaker_ids' = ids
        /\ ret' = [op |-> "parse_speakers_from_items", status |-> "ok",
                   value |-> <<ids, PyLen(ids)>>]
        /\ UNCHANGED <<x_vectors, clip_ids, speaker_encoder, disk>>

save_ids_file ==
    /\ disk' = [holds |-> "ids", doc |-> save_json(speaker_ids)]
    /\ ret' = [op |-> "save_ids_file", status |-> "ok"]
    /\ UNCHANGED <<x_vectors, speaker_ids, clip_ids, speaker_encoder>>

load_ids_file(path, doc) ==
    LET r == load_json(doc)
    IN  /\ IF r.raised
           THEN /\ ret' = [op |-> "load_ids_file", status |-> "error", path |-> path]
                /\ UNCHANGED speaker_ids
           ELSE /\ speaker_ids' = r.value
                /\ ret' = [op |-> "load_ids_file", status |-> "ok", path |-> path]
        /\ UNCHANGED <<x_vectors, clip_ids, speaker_encoder, disk>>

save_x_vectors_file ==
    /\ disk' = [holds |-> "x_vectors", doc |-> save_json(x_vectors)]
    /\ ret' = [op |-> "save_x_vectors_file", status |-> "ok"]
    /\ UNCHANGED <<x_vectors, speaker_ids, clip_ids, speaker_encoder>>

\* x["name"] raises KeyError on an entry without that key
HasName(entry) == "name" \in entry.keys
AllNamed(table) == \A i \in 1..Len(table.items) : HasName(table.items[i].value)

\* (mutant) the speaker index without the set(): one name per entry
SpeakerIndexPerEntry(table) ==
    {[i \in 1..Len(table.items) |-> table.items[i].value.name]}

\* list(set(sorted(x["name"] for x in self.x_vectors.values()))): the distinct
\* names in the iteration order of a set of str, which is their hash order, so
\* any order
SpeakerIndex(table) ==
    Orderings({table.items[i].value.name : i \in 1..Len(table.items)})

\* list(set(sorted(clip_name for clip_name in self.x_vectors.keys())))
ClipIndex(table) ==
    Orderings(Range(DictKeys(table)))

load_x_vectors_file(path, doc) ==
    LET r == load_json(doc)
    IN  /\ IF r.raised
           THEN /\ ret' = [op |-> "load_x_vectors_file", status |-> "error", path |-> path]
                /\ UNCHANGED <<x_vectors, speaker_ids, clip_ids>>
           ELSE /\ x_vectors' = r.value
                /\ IF ~AllNamed(r.value)
                   THEN /\ ret' = [op |-> "load_x_vectors_file", status |-> "KeyError",
                                   path |-> path]
                        /\ UNCHANGED <<speaker_ids, clip_ids>>
                   ELSE /\ \E names \in SpeakerIndex(r.value) :
                              speaker_ids' = PyList(names)
                        /\ \E clips \in ClipIndex(r.value) :
                              clip_ids' = PyList(clips)
                        /\ ret' = [op |-> "load_x_vectors_file", status |-> "ok",
                                   path |-> path]
        /\ UNCHANGED <<speaker_encoder, disk>>

\* ------------------------------------------------------------------ queries
\* the list comprehension of get_x_vectors_by_speaker: x["name"] is evaluated
\* for every entry in stored order, so one entry without a name raises KeyError
\* (mutant) the matching embeddings, newest first
RECURSIVE MatchingReversed(_, _)
MatchingReversed(items, speaker_idx) ==
    IF items = <<>> THEN <<>>
    ELSE MatchingReversed(Tail(items), speaker_idx)
         \o (IF Head(items).value.name = speaker_idx
             THEN <<Head(items).value.embedding>> ELSE <<>>)

RECURSIVE Matching(_, _)
Matching(items, speaker_idx) ==
    IF items = <<>> THEN <<>>
    ELSE (IF Head(items).value.name = speaker_idx
          THEN <<Head(items).value.embedding>> ELSE <<>>)
         \o Matching(Tail(items), speaker_idx)

XVectorsBySpeaker(table, speaker_idx) ==
    IF AllNamed(table)
    THEN [status |-> "ok", value |-> Matching(table.items, speaker_idx)]
    ELSE [status |-> "KeyError", value |-> <<>>]

get_x_vectors_by_speaker(speaker_idx) ==
    LET r == XVectorsBySpeaker(x_vectors, speaker_idx)
    IN  /\ ret' = [op |-> "get_x_vectors_by_speaker", status |-> r.status,
                   speaker_idx |-> speaker_idx, value |-> r.value]
        /\ UNCHANGED <<x_vectors, speaker_ids, clip_ids, speaker_encoder, disk>>

\* exact fractions in lowest terms
RECURSIVE GCD(_, _)
GCD(a, b) == IF b = 0 THEN a ELSE GCD(b, a % b)
Frac(n, d) == LET g == GCD(n, d) IN <<n \div g, d \div g>>

RECURSIVE ColumnSum(_, _)
ColumnSum(vectors, i) ==
    IF vectors = <<>> THEN 0 ELSE Head(vectors)[i] + ColumnSum(Tail(vectors), i)

\* (mutant) the sum instead of the mean
StackSum(vectors) ==
    IF vectors = <<>>
    THEN [status |-> "ValueError", value |-> <<>>]
    ELSE [status |-> "ok",
          value |-> [i \in 1..Len(vectors[1]) |-> Frac(ColumnSum(vectors, i), 1)]]

\* np.stack(vectors).mean(0): np.stack raises ValueError on an empty list
StackMean(vectors) ==
    IF vectors = <<>>
    THEN [status |-> "ValueError", value |-> <<>>]
    ELSE [status |-> "ok",
          value |-> [i \in 1..Len(vectors[1]) |->
                        Frac(ColumnSum(vectors, i), Len(vectors))]]

\* (mutant) x_vectors[-num_samples:]
Suffix(vectors, n) ==
    SubSeq(vectors, Len(vectors) + 1 - Min(n, Len(vectors)), Len(vectors))

\* x_vectors[:num_samples]; a slice past the end stops at the end
Prefix(vectors, n) == SubSeq(vectors, 1, Min(n, Len(vectors)))

\* (mutant) no check of the number of samples
AnyNumberOfSamples(vectors, n) == TRUE

\* the condition of the assert: len(x_vectors) >= num_samples
EnoughSamples(vectors, n) == Len(vectors) >= n

\* num_samples is <<>> when unset (None) and <<k>> when set; picks are the
\* indices random.choices draws (with replacement) when randomize is true
get_mean_x_vector(speaker_idx, num_samples, randomize, picks) ==
    LET got == XVectorsBySpeaker(x_vectors, speaker_idx)
        vs == got.value
        r == IF got.status # "ok" THEN got
             ELSE IF num_samples = <<>> THEN StackMean(vs)
             ELSE IF ~EnoughSamples(vs, num_samples[1])
                  THEN [status |-> "AssertionError", value |-> <<>>]
             ELSE IF randomize
                  THEN StackMean([j \in 1..num_samples[1] |-> vs[picks[j]]])
                  ELSE StackMean(Prefix(vs, num_samples[1]))
    IN  /\ ret' = [op |-> "get_mean_x_vector", status |-> r.status,
                   speaker_idx |-> speaker_idx, num_samples |-> num_samples,
                   randomize |-> randomize, value |-> r.value]
        /\ UNCHANGED <<x_vectors, speaker_ids, clip_ids, speaker_encoder, disk>>

\* the index sequences random.choices(x_vectors, k=num_samples) can draw
Picks(speaker_idx, num_samples, randomize) ==
    LET n == Len(XVectorsBySpeaker(x_vectors, speaker_idx).value)
    IN  IF randomize /\ num_samples # <<>> /\ n >= 1
        THEN [1..num_samples[1] -> 1..n]
        ELSE {<<>>}

\* self.x_vectors[clip_idx]["embedding"]: KeyError on a clip the table lacks
get_x_vector_by_clip(clip_idx) ==
    /\ ret' = IF DictHas(x_vectors, clip_idx)
                 /\ "embedding" \in DictGet(x_vectors, clip_idx).keys
              THEN [op |-> "get_x_vector_by_clip", status |-> "ok", clip_idx |-> clip_idx,
                    value |-> DictGet(x_vectors, clip_idx).embedding]
              ELSE [op |-> "get_x_vector_by_clip", status |-> "KeyError",
                    clip_idx |-> clip_idx, value |-> <<>>]
    /\ UNCHANGED <<x_vectors, speaker_ids, clip_ids, speaker_encoder, disk>>

\* (mutant) get_clips that sorts the clip-id index in place and returns it
get_clips_sorting_index ==
    /\ clip_ids' = PyList(sorted(Range(DictKeys(x_vectors))))
    /\ ret' = [op |-> "get_clips", status |-> "ok", value |-> clip_ids'.items]
    /\ UNCHANGED <<x_vectors, speaker_ids, speaker_encoder, disk>>

\* sorted(self.x_vectors.keys()): a new list
get_clips ==
    /\ ret' = [op |-> "get_clips", status |-> "ok",
               value |-> sorted(Range(DictKeys(x_vectors)))]
    /\ UNCHANGED <<x_vectors, speaker_ids, clip_ids, speaker_encoder, disk>>

\* reading the property num_speakers
read_num_speakers ==
    /\ ret' = [op |-> "num_speakers", status |-> "ok", value |-> num_speakers]
    /\ UNCHANGED <<x_vectors, speaker_ids, clip_ids, speaker_encoder, disk>>

\* reading the property x_vector_dim: the length of the first entry's
\* embedding; list(keys())[0] raises IndexError on an empty table
x_vector_dim ==
    /\ ret' = IF PyLen(x_vectors) = 0
              THEN [op |-> "x_vector_dim", status |-> "IndexError", value |-> 0]
              ELSE [op |-> "x_vector_dim", status |-> "ok",
                    value |-> Len(DictGet(x_vectors, DictKeys(x_vectors)[1]).embedding)]
    /\ UNCHANGED <<x_vectors, speaker_ids, clip_ids, speaker_encoder, disk>>

\* ------------------------------------------------------------------ encoder
\* the audio files on hand, and what the attached encoder computes for each:
\* speaker_encoder maps a wav path to compute_embedding(melspectrogram(load_wav(path))),
\* a batch of one embedding
WavFiles == {"w1.wav", "w2.wav"}
Encoders == [WavFiles -> {<<e>> : e \in Range(ClipEmbeddings)}]

\* (mutant) x_vectors = x_vector instead of x_vectors += x_vector
TensorAssign(x, y) == y

\* tensor += tensor, element-wise over a batch of one
TensorAdd(x, y) == << [i \in 1..Len(x[1]) |-> x[1][i] + y[1][i]] >>

\* the loop of the list branch: x_vectors starts as None (<<>>), takes the
\* first embedding, then adds each further one
RECURSIVE Accumulate(_, _, _)
Accumulate(encoder, wav_files, x_vecs) ==
    IF wav_files = <<>> THEN x_vecs
    ELSE Accumulate(encoder, Tail(wav_files),
                    IF x_vecs = <<>> THEN encoder[Head(wav_files)]
                    ELSE TensorAdd(x_vecs, encoder[Head(wav_files)]))

\* wav_file is [type |-> "str", path |-> ...] or a list of paths
ComputeXVectorFromClip(encoder, wav_file) ==
    IF wav_file.type = "list"
    THEN LET x_vecs == Accumulate(encoder, wav_file.items, <<>>)
         IN  IF x_vecs = <<>>
             THEN [status |-> "TypeError", value |-> <<>>]
             ELSE [status |-> "ok",
                   value |-> [i \in 1..Len(x_vecs[1]) |->
                                 Frac(x_vecs[1][i], Len(wav_file.items))]]
    ELSE LET x_vector == encoder[wav_file.path]
         IN  [status |-> "ok",
              value |-> [i \in 1..Len(x_vector[1]) |-> Frac(x_vector[1][i], 1)]]

compute_x_vector_from_clip(wav_file) ==
    LET r == ComputeXVectorFromClip(speaker_encoder, wav_file)
    IN  /\ ret' = [op |-> "compute_x_vector_from_clip", status |-> r.status,
                   wav_file |-> wav_file, value |-> r.value]
        /\ UNCHANGED <<x_vectors, speaker_ids, clip_ids, speaker_encoder, disk>>

\* ------------------------------------------------------------ specifications
\* the registry fed from documents on hand
Next ==
    \/ \E items \in Items : parse_speakers_from_items(items)
    \/ \E doc \in IdsDocs \cup {Unreadable} : load_ids_file(OtherPath, doc)
    \/ \E doc \in OrderedXVectorDocs \cup {Unreadable} : load_x_vectors_file(OtherPath, doc)

Spec == Init /\ [][Next]_vars

\* the id mapping alone: parsed from items, loaded from documents on hand,
\* saved to and loaded from SavePath
NextIds ==
    \/ \E items \in Items : parse_speakers_from_items(items)
    \/ \E doc \in IdsDocs \cup {Unreadable} : load_ids_file(OtherPath, doc)
    \/ save_ids_file
    \/ disk.holds \in {"nothing", "ids"} /\ load_ids_file(SavePath, disk.doc)

SpecIds == Init /\ [][NextIds]_vars

\* the registry constructed from files: __init__ with x_vectors_file_path and
\* (withIds) speaker_id_file_path; a load that raises leaves no registry
InitFromFiles(withIds) ==
    \E xdoc \in ValidXVectorDocs :
      \E names \in Orderings({xdoc.members[i].value.name : i \in 1..Len(xdoc.members)}),
         clips \in Orderings({xdoc.members[i].key : i \in 1..Len(xdoc.members)}) :
        /\ x_vectors = json_load(xdoc)
        /\ clip_ids = PyList(clips)
        /\ \/ speaker_ids = PyList(names)
           \/ withIds /\ \E idoc \in IdsDocs : speaker_ids = json_load(idoc)
        /\ speaker_encoder = "None"
        /\ disk = NoFile
        /\ ret = [op |-> "__init__", status |-> "ok"]

\* the queries over every table: the registry is constructed from an x-vector
\* document, and a later load that raises leaves the table it assigned
InitXVectors == InitFromFiles(FALSE)

QuerySpeakers == TableSpeakers \cup {UnknownSpeaker}
SampleCounts == {<<>>} \cup {<<k>> : k \in 0..MaxSamples}

NextQuery ==
    \/ \E doc \in InvalidXVectorDocs \cup {Unreadable} : load_x_vectors_file(OtherPath, doc)
    \/ \E s \in QuerySpeakers : get_x_vectors_by_speaker(s)
    \/ \E s \in QuerySpeakers, k \in SampleCounts, randomize \in BOOLEAN :
          \E picks \in Picks(s, k, randomize) : get_mean_x_vector(s, k, randomize, picks)

SpecQuery == InitXVectors /\ [][NextQuery]_vars

\* saving to and loading from SavePath
InitLoaded == InitFromFiles(TRUE)

NextPersist ==
    \/ save_ids_file
    \/ disk.holds \in {"nothing", "ids"} /\ load_ids_file(SavePath, disk.doc)
    \/ save_x_vectors_file
    \/ disk.holds \in {"nothing", "x_vectors"} /\ load_x_vectors_file(SavePath, disk.doc)

SpecPersist == InitLoaded /\ [][NextPersist]_vars

\* the registry with an encoder attached (init_speaker_encoder)
InitEncoder ==
    /\ x_vectors = PyDict(<<>>)
    /\ speaker_ids = PyList(<<>>)
    /\ clip_ids = PyList(<<>>)
    /\ speaker_encoder \in Encoders
    /\ disk = NoFile
    /\ ret = [op |-> "__init__", status |-> "ok"]

WavArguments ==
    {[type |-> "str", path |-> w] : w \in WavFiles}
        \cup {PyList(l) : l \in UNION {[1..k -> WavFiles] : k \in 0..MaxWavs}}

NextEncoder ==
    \E wav_file \in WavArguments : compute_x_vector_from_clip(wav_file)

SpecEncoder == InitEncoder /\ [][NextEncoder]_vars

\* every operation on the tables and the id mapping, from the empty registry.
\* The x-vector documents on hand list the first two clips in ascending order,
\* each entry of speaker "a" or nameless; the corpus on hand has at most one
\* item, of speaker "b"; id documents come from SavePath
FrameEntryValues(clip) ==
    {Entry(<<97>>, EmbeddingOf(clip)), NamelessEntry(EmbeddingOf(clip))}
FrameDocs ==
    {d \in ObjectDocs(DistinctSeqs({ClipName(1), ClipName(2)}, 2), FrameEntryValues) :
        KeysAscending(d)}
FrameItems == {<<>>, << <<"text", "wav", <<98>>>> >>}
FrameClips == {ClipName(1), ClipName(2), <<99, 57>>}
FrameCounts == {<<>>, <<1>>, <<MaxSamples>>}

NextFrame ==
    \/ \E items \in FrameItems : parse_speakers_from_items(items)
    \/ save_ids_file
    \/ disk.holds \in {"nothing", "ids"} /\ load_ids_file(SavePath, disk.doc)
    \/ save_x_vectors_file
    \/ disk.holds \in {"nothing", "x_vectors"} /\ load_x_vectors_file(SavePath, disk.doc)
    \/ \E doc \in FrameDocs \cup {Unreadable} : load_x_vectors_file(OtherPath, doc)
    \/ \E c \in FrameClips : get_x_vector_by_clip(c)
    \/ \E s \in QuerySpeakers : get_x_vectors_by_speaker(s)
    \/ \E s \in QuerySpeakers, k \in FrameCounts, randomize \in BOOLEAN :
          \E picks \in Picks(s, k, randomize) : get_mean_x_vector(s, k, randomize, picks)
    \/ get_clips
    \/ read_num_speakers
    \/ x_vector_dim

SpecFrame == Init /\ [][NextFrame]_vars

\* -------------------------------------------------------------- construction
\* __init__ as a step. Before it runs the object has no attributes; an empty
\* path argument ("") is NoPath
Unset == [type |-> "unset", items |-> <<>>]
NoPath == [type |-> "nopath"]

InitNew ==
    /\ x_vectors = Unset
    /\ speaker_ids = Unset
    /\ clip_ids = Unset
    /\ speaker_encoder = "None"
    /\ disk = NoFile
    /\ ret = [op |-> "__new__", status |-> "ok"]

\* the attributes of SpeakerManager: __init__ refers to self.parse_speakers,
\* which is not among them
Methods ==
    {"_load_json", "_save_json", "num_speakers", "x_vector_dim",
     "parse_speakers_from_items", "save_ids_file", "load_ids_file",
     "save_x_vectors_file", "load_x_vectors_file", "get_x_vector_by_clip",
     "get_x_vectors_by_speaker", "get_mean_x_vector", "get_speakers", "get_clips",
     "init_speaker_encoder", "compute_x_vector_from_clip", "compute_x_vector",
     "run_umap", "plot_embeddings"}

\* __init__(data_items, x_vectors_file_path, speaker_id_file_path): the fields
\* are reset, then each non-empty argument is acted on in turn; an exception
\* ends the constructor where it is raised
construct(data_items, xdoc, idoc) ==
    LET done(status) == [op |-> "__init__", status |-> status, data_items |-> data_items,
                         x_vectors_file_path |-> xdoc # NoPath,
                         speaker_id_file_path |-> idoc # NoPath]
        xr == load_json(xdoc)
        ir == load_json(idoc)
    IN  /\ ret.op = "__new__"
        /\ UNCHANGED <<speaker_encoder, disk>>
        /\ IF data_items # <<>> /\ "parse_speakers" \notin Methods
           THEN /\ x_vectors' = PyDict(<<>>)
                /\ speaker_ids' = PyList(<<>>)
                /\ clip_ids' = PyList(<<>>)
                /\ ret' = done("AttributeError")
           ELSE IF xdoc # NoPath /\ xr.raised
           THEN /\ x_vectors' = PyDict(<<>>)
                /\ speaker_ids' = PyList(<<>>)
                /\ clip_ids' = PyList(<<>>)
                /\ ret' = done("error")
           ELSE IF xdoc # NoPath /\ ~AllNamed(xr.value)
           THEN /\ x_vectors' = xr.value
                /\ speaker_ids' = PyList(<<>>)
                /\ clip_ids' = PyList(<<>>)
                /\ ret' = done("KeyError")
           ELSE /\ x_vectors' = IF xdoc # NoPath THEN xr.value ELSE PyDict(<<>>)
                /\ \E clips \in (IF xdoc # NoPath THEN ClipIndex(xr.value) ELSE {<<>>}) :
                      clip_ids' = PyList(clips)
                /\ \E names \in (IF xdoc # NoPath THEN SpeakerIndex(xr.value) ELSE {<<>>}) :
                      IF idoc = NoPath
                      THEN speaker_ids' = PyList(names) /\ ret' = done("ok")
                      ELSE IF ir.raised
                      THEN speaker_ids' = PyList(names) /\ ret' = done("error")
                      ELSE speaker_ids' = ir.value /\ ret' = done("ok")

NextConstruct ==
    \E data_items \in Items,
       xdoc \in OrderedXVectorDocs \cup {NoPath, Unreadable},
       idoc \in IdsDocs \cup {NoPath, Unreadable} :
         construct(data_items, xdoc, idoc)

SpecConstruct == InitNew /\ [][NextConstruct]_vars

\* ==================================================================== claims
\* the names of the items, as a set
ItemNames(items) == {items[i][3] : i \in 1..Len(items)}

\* C1: parse_speakers_from_items gives the distinct names of the items the ids
\* 0..N-1 in lexicographic order of the names, whatever the order or the
\* repetition of the items (the mapping is determined by the set of names), and
\* returns the mapping and N; no items give the empty mapping.
C1_ParseIdsSortedContiguous ==
    [][\A items \in Items :
         (ret'.op = "parse_speakers_from_items" /\ parse_speakers_from_items(items)) =>
            LET names == ItemNames(items)
                N == Cardinality(names)
            IN  /\ speaker_ids'.type = "dict"
                /\ PyLen(speaker_ids') = N
                /\ Range(DictKeys(speaker_ids')) = names
                /\ Range(DictValues(speaker_ids')) = 0..(N - 1)
                /\ \A m, n \in names :
                      StrLess(m, n) => DictGet(speaker_ids', m) < DictGet(speaker_ids', n)
                /\ ret'.value = <<speaker_ids', N>>]_vars

\* C1 witness: a parse gave "a" the id 0 and "ab" the id 1
C1_Witness ==
    /\ ret.op = "parse_speakers_from_items"
    /\ speaker_ids = PyDict(<<[key |-> <<97>>, value |-> 0], [key |-> <<97, 98>>, value |-> 1]>>)

\* the speaker names and the clip ids present in a table
TableNames(table) == {table.items[i].value.name : i \in 1..Len(table.items)}
TableClips(table) == {table.items[i].key : i \in 1..Len(table.items)}

\* C2: after a successful load_x_vectors_file the speaker-name index is the
\* sorted duplicate-free sequence of the names in the table and the clip-id
\* index is the sorted duplicate-free sequence of the clip ids.
C2_IndicesSortedAfterLoad ==
    (ret.op = "load_x_vectors_file" /\ ret.status = "ok") =>
        /\ speaker_ids = PyList(sorted(TableNames(x_vectors)))
        /\ clip_ids = PyList(sorted(TableClips(x_vectors)))

\* the number of distinct ids of an id mapping
DistinctIds(mapping) == Cardinality(Range(DictValues(mapping)))

C4_LoadAllOrNothing ==
    [][(ret'.op \in {"load_x_vectors_file", "load_ids_file"} /\ ret'.status # "ok")
          => UNCHANGED <<x_vectors, speaker_ids, clip_ids>>]_vars

\* the positions of the table's entries whose name field is the speaker
EntriesOf(table, speaker_idx) ==
    {i \in 1..Len(table.items) : table.items[i].value.name = speaker_idx}

\* the k-th smallest element of a set of positions
Kth(positions, k) ==
    CHOOSE i \in positions : Cardinality({j \in positions : j < i}) = k - 1

\* the sum of coordinate c of the embeddings at the given positions
RECURSIVE CoordinateSum(_, _, _)
CoordinateSum(table, positions, c) ==
    IF positions = {} THEN 0
    ELSE LET i == CHOOSE j \in positions : TRUE
         IN  table.items[i].value.embedding[c] + CoordinateSum(table, positions \ {i}, c)

\* value is the element-wise mean of the embeddings at the positions
IsMeanOf(value, table, positions) ==
    LET dim == Len(table.items[CHOOSE i \in positions : TRUE].value.embedding)
    IN  /\ Len(value) = dim
        /\ \A c \in 1..dim :
              /\ value[c][2] > 0
              /\ value[c][1] * Cardinality(positions)
                    = value[c][2] * CoordinateSum(table, positions, c)

\* C5: on a table of {name, embedding} entries, get_mean_x_vector(s) with
\* num_samples unset returns the element-wise mean of all embeddings of s, of
\* the embeddings' dimensionality; with one entry it is that embedding; with no
\* entry of s the call fails.
C5_MeanOfAll ==
    (ret.op = "get_mean_x_vector" /\ ret.num_samples = <<>> /\ AllNamed(x_vectors)) =>
        LET own == EntriesOf(x_vectors, ret.speaker_idx)
        IN  IF own = {}
            THEN ret.status # "ok"
            ELSE /\ ret.status = "ok"
                 /\ IsMeanOf(ret.value, x_vectors, own)
                 /\ Cardinality(own) = 1 =>
                       LET e == x_vectors.items[CHOOSE i \in own : TRUE].value.embedding
                       IN  ret.value = [c \in 1..Len(e) |-> <<e[c], 1>>]

\* C5 witness: the mean of the two embeddings [1, 0] and [3, 0] of a speaker
\* came out as [2, 0]
C5_Witness ==
    /\ ret.op = "get_mean_x_vector"
    /\ ret.num_samples = <<>>
    /\ ret.status = "ok"
    /\ Cardinality(EntriesOf(x_vectors, ret.speaker_idx)) = 2
    /\ ret.value = <<<<2, 1>>, <<0, 1>>>>

\* C6: on a table of {name, embedding} entries, for 1 <= k <= the number of
\* entries of s, get_mean_x_vector(s, num_samples=k, randomize=False) returns
\* the element-wise mean of the first k embeddings of s in stored order; the
\* result is determined by the table and the arguments, so repeated calls agree.
C6_MeanOfFirstK ==
    (/\ ret.op = "get_mean_x_vector"
     /\ ret.num_samples # <<>>
     /\ ~ret.randomize
     /\ AllNamed(x_vectors)) =>
        LET own == EntriesOf(x_vectors, ret.speaker_idx)
            k == ret.num_samples[1]
        IN  (1 <= k /\ k <= Cardinality(own)) =>
               /\ ret.status = "ok"
               /\ IsMeanOf(ret.value, x_vectors, {Kth(own, j) : j \in 1..k})

\* C6 witness: one sample was asked of a speaker with two entries whose
\* embeddings differ, and the first one came back
C6_Witness ==
    /\ ret.op = "get_mean_x_vector"
    /\ ret.num_samples = <<1>>
    /\ ~ret.randomize
    /\ ret.status = "ok"
    /\ AllNamed(x_vectors)
    /\ Cardinality(EntriesOf(x_vectors, ret.speaker_idx)) = 2
    /\ ret.value = <<<<3, 1>>, <<0, 1>>>>

\* C7: on a table of {name, embedding} entries, get_mean_x_vector(s,
\* num_samples=k) with k above the number of entries of s fails the assertion,
\* whatever randomize is, returns no vector, and leaves the registry unchanged.
C7_TooManySamplesFails ==
    [][(/\ ret'.op = "get_mean_x_vector"
        /\ ret'.num_samples # <<>>
        /\ AllNamed(x_vectors)
        /\ ret'.num_samples[1] > Cardinality(EntriesOf(x_vectors, ret'.speaker_idx))) =>
           /\ ret'.status = "AssertionError"
           /\ ret'.value = <<>>
           /\ UNCHANGED <<x_vectors, speaker_ids, clip_ids, speaker_encoder, disk>>]_vars

\* C7 witness: three samples were asked, at random, of a speaker with two
\* entries, and the call failed
C7_Witness ==
    /\ ret.op = "get_mean_x_vector"
    /\ ret.num_samples = <<3>>
    /\ ret.randomize
    /\ AllNamed(x_vectors)
    /\ Cardinality(EntriesOf(x_vectors, ret.speaker_idx)) = 2
    /\ ret.status = "AssertionError"

\* C8: save_ids_file followed by load_ids_file of the saved document leaves the
\* id mapping as it was, and save_x_vectors_file followed by
\* load_x_vectors_file of the saved document leaves the x-vector table as it
\* was (clip ids, names, embeddings and their order).
C8_SaveLoadRoundTrip ==
    [][/\ (ret.op = "save_ids_file" /\ ret'.op = "load_ids_file" /\ ret'.path = SavePath) =>
             /\ ret'.status = "ok"
             /\ speaker_ids' = speaker_ids
       /\ (ret.op = "save_x_vectors_file" /\ ret'.op = "load_x_vectors_file"
              /\ ret'.path = SavePath) =>
             /\ ret'.status = "ok"
             /\ x_vectors' = x_vectors]_vars

\* C8 witness: a table of two entries stored in descending clip order was
\* saved and loaded back from the saved file
C8_Witness ==
    /\ ret.op = "load_x_vectors_file"
    /\ ret.path = SavePath
    /\ ret.status = "ok"
    /\ disk.holds = "x_vectors"
    /\ Len(x_vectors.items) = 2
    /\ StrLess(x_vectors.items[2].key, x_vectors.items[1].key)

\* the single-path form for each path of a list
SinglePath(path) ==
    ComputeXVectorFromClip(speaker_encoder, [type |-> "str", path |-> path]).value

RECURSIVE SumOfSingles(_, _)
SumOfSingles(paths, c) ==
    IF paths = <<>> THEN 0
    ELSE SinglePath(Head(paths))[c][1] + SumOfSingles(Tail(paths), c)

\* C9: for a deterministic encoder and a non-empty list of paths,
\* compute_x_vector_from_clip(list) is the element-wise sum of the single-path
\* results divided by the length of the list, and a list of one path gives the
\* single-path result.
C9_ListIsMeanOfSingles ==
    (/\ ret.op = "compute_x_vector_from_clip"
     /\ ret.wav_file.type = "list"
     /\ ret.wav_file.items # <<>>) =>
        LET paths == ret.wav_file.items
            n == Len(paths)
        IN  /\ ret.status = "ok"
            /\ Len(ret.value) = Len(SinglePath(paths[1]))
            /\ \A c \in 1..Len(ret.value) :
                  /\ \A j \in 1..n : SinglePath(paths[j])[c][2] = 1
                  /\ ret.value[c][2] > 0
                  /\ ret.value[c][1] * n = ret.value[c][2] * SumOfSingles(paths, c)
            /\ n = 1 => ret.value = SinglePath(paths[1])

\* C9 witness: a list of two clips with different embeddings was averaged
C9_Witness ==
    /\ ret.op = "compute_x_vector_from_clip"
    /\ ret.wav_file.type = "list"
    /\ Len(ret.wav_file.items) = 2
    /\ speaker_encoder[ret.wav_file.items[1]] # speaker_encoder[ret.wav_file.items[2]]
    /\ ret.status = "ok"

\* C10: on a table of {name, embedding} entries, get_x_vectors_by_speaker(s)
\* returns the embeddings of exactly the entries named s, one per entry, in
\* stored order; with no such entry (an empty table included) it returns the
\* empty sequence and raises nothing.
C10_BySpeakerInStoredOrder ==
    (ret.op = "get_x_vectors_by_speaker" /\ AllNamed(x_vectors)) =>
        LET own == EntriesOf(x_vectors, ret.speaker_idx)
        IN  /\ ret.status = "ok"
            /\ Len(ret.value) = Cardinality(own)
            /\ \A k \in 1..Len(ret.value) :
                  ret.value[k] = x_vectors.items[Kth(own, k)].value.embedding

\* C10 witness: a speaker's two embeddings came back, out of a table that
\* holds them in the order [3, 0], [1, 0]
C10_Witness ==
    /\ ret.op = "get_x_vectors_by_speaker"
    /\ ret.status = "ok"
    /\ ret.value = <<<<3, 0>>, <<1, 0>>>>

\* C11: constructing the registry with a non-empty list of corpus items and no
\* file paths succeeds and leaves the id mapping parse_speakers_from_items
\* derives from the items: the sorted distinct names numbered 0..N-1.
C11_ConstructFromItems ==
    (/\ ret.op = "__init__"
     /\ ret.data_items # <<>>
     /\ ~ret.x_vectors_file_path
     /\ ~ret.speaker_id_file_path) =>
        /\ ret.status = "ok"
        /\ speaker_ids = Enumerate(sorted(ItemNames(ret.data_items)))

\* C12: the x-vector table and the clip-id index change only in a
\* load_x_vectors_file step: every other operation (parse_speakers_from_items,
\* load_ids_file, both saves, the three lookups, successful or failing,
\* get_clips, num_speakers, x_vector_dim) leaves both as they were.
C12_TableChangesOnlyInLoad ==
    [][ret'.op # "load_x_vectors_file" => UNCHANGED <<x_vectors, clip_ids>>]_vars

\* get_clips has returned the sorted clips of a two-entry table whose index is
\* in another order
C12_Witness ==
    /\ ret.op = "get_clips"
    /\ PyLen(x_vectors) = 2
    /\ clip_ids.items # ret.value
    /\ Range(clip_ids.items) = Range(ret.value)

====
